---- MODULE Spec2Model ----
\* Context management of the lcms2 binding (src/src/context.rs):
\* GlobalContext, ThreadContext and the native engine calls they issue.
EXTENDS Integers, FiniteSets

\* ---------------------------------------------------------------- bounds
MaxWrappers == 3
MaxHandles == 3
MaxPlugins == 1
MaxThreads == 2

Wrappers == 1..MaxWrappers
Handles == 1..MaxHandles
Plugins == 1..MaxPlugins
Threads == 1..MaxThreads

\* ptr::null_mut(): the null handle and the null user-data pointer.
NULL == 0

\* Byte buffers handed to a context-scoped load: 0 is the empty slice &[],
\* 1 a well-formed profile.
Buffers == {0, 1}

VARIABLES
    wstate,        \* wrapper slot -> "none" | "live": a ThreadContext value exists
    handle,        \* wrapper slot -> ThreadContext.handle
    created,       \* wrapper slot -> the handle the engine returned when it was built
    cloned,        \* <<source, clone>> of the latest clone() while both exist
    engineLive,    \* native contexts allocated and not yet deleted
    plugins,       \* handle -> plugins registered in that native context
    userData,      \* handle -> user-data pointer of that native context
    globalPlugins, \* plugins registered in the engine's global context
    fault,         \* an engine call received the address of a deleted context
    nullCall,      \* a ThreadContext issued an engine call with the null handle
    gctx,          \* thread -> it holds a GlobalContext value
    gpc,           \* thread -> "idle" | "unreg" | "use": inside a global engine call
    raced,         \* threads whose running global engine call overlapped another
    last           \* the last call: its name, its receiver (the thread for a
                   \* GlobalContext, the wrapper for a ThreadContext), the value
                   \* it returned and whether it panicked

wrapperVars == <<wstate, handle, created, cloned>>
engineVars == <<engineLive, plugins, userData, globalPlugins, fault, nullCall>>
globalVars == <<gctx, gpc, raced>>
vars == <<wstate, handle, created, cloned, engineLive, plugins,
          userData, globalPlugins, fault, nullCall, gctx, gpc, raced, last>>

Ret(op, w, ret, panic) == [op |-> op, w |-> w, ret |-> ret, panic |-> panic]

Init ==
    /\ wstate = [w \in Wrappers |-> "none"]
    /\ handle = [w \in Wrappers |-> NULL]
    /\ created = [w \in Wrappers |-> NULL]
    /\ cloned = <<0, 0>>
    /\ engineLive = {}
    /\ plugins = [h \in Handles |-> {}]
    /\ userData = [h \in Handles |-> NULL]
    /\ globalPlugins \in SUBSET Plugins
    /\ fault = FALSE
    /\ nullCall = FALSE
    /\ gctx = [t \in Threads |-> FALSE]
    /\ gpc = [t \in Threads |-> "idle"]
    /\ raced = {}
    /\ last = Ret("init", 0, NULL, 0)

\* ------------------------------------------------------- the native engine
\* Addresses at which the engine holds no context.
FreeHandles == Handles \ engineLive

\* What the engine may return for a context allocation: null (allocation
\* failure), or the address of a context that is not currently allocated.
\* Handles are opaque to the wrapper, which never compares or orders them, so
\* the engine's choice among the free addresses is represented by the lowest
\* one; the address of a deleted context is thereby reused at once.
AllocResults == {NULL} \cup {h \in FreeHandles : \A g \in FreeHandles : h <= g}

Dangling(h) == h # NULL /\ h \notin engineLive

PluginsOf(h) == IF h = NULL \/ Dangling(h) THEN globalPlugins ELSE plugins[h]

UserDataOf(h) == IF h = NULL \/ Dangling(h) THEN NULL ELSE userData[h]

\* cmsCreateContext(Plugin = NULL, UserData = ud) returning ret.
cmsCreateContext(ret, ud) ==
    /\ ret \in AllocResults
    /\ IF ret = NULL
       THEN UNCHANGED <<engineLive, plugins, userData>>
       ELSE /\ engineLive' = engineLive \cup {ret}
            /\ plugins' = [plugins EXCEPT ![ret] = {}]
            /\ userData' = [userData EXCEPT ![ret] = ud]
    /\ UNCHANGED <<globalPlugins, fault, nullCall>>

\* cmsDupContext(src, NewUserData = ud) returning ret.
cmsDupContext(src, ret, ud) ==
    /\ ret \in AllocResults
    /\ IF ret = NULL
       THEN UNCHANGED <<engineLive, plugins, userData>>
       ELSE /\ engineLive' = engineLive \cup {ret}
            /\ plugins' = [plugins EXCEPT ![ret] = PluginsOf(src)]
            /\ userData' = [userData EXCEPT
                   ![ret] = IF ud # NULL THEN ud ELSE UserDataOf(src)]
    /\ fault' = (fault \/ Dangling(src))
    /\ nullCall' = (nullCall \/ src = NULL)
    /\ UNCHANGED globalPlugins

\* cmsDeleteContext(h): a null handle is ignored by the engine.
cmsDeleteContext(h) ==
    /\ IF h \in engineLive
       THEN /\ engineLive' = engineLive \ {h}
            /\ plugins' = [plugins EXCEPT ![h] = {}]
            /\ userData' = [userData EXCEPT ![h] = NULL]
       ELSE UNCHANGED <<engineLive, plugins, userData>>
    /\ fault' = (fault \/ Dangling(h))
    /\ nullCall' = (nullCall \/ h = NULL)
    /\ UNCHANGED globalPlugins

\* cmsGetContextUserData(h): reads only.
cmsGetContextUserData(h) ==
    /\ fault' = (fault \/ Dangling(h))
    /\ nullCall' = (nullCall \/ h = NULL)
    /\ UNCHANGED <<engineLive, plugins, userData, globalPlugins>>

\* cmsPluginTHR(h, plugin) returning ok (0 or 1): on success the plugin is
\* registered in context h, the global one when h is null.
cmsPluginTHR(h, p, ok) ==
    /\ IF ok = 0
       THEN UNCHANGED <<plugins, globalPlugins>>
       ELSE IF h \in engineLive
            THEN /\ plugins' = [plugins EXCEPT ![h] = plugins[h] \cup {p}]
                 /\ UNCHANGED globalPlugins
            ELSE /\ globalPlugins' = globalPlugins \cup {p}
                 /\ UNCHANGED plugins
    /\ fault' = (fault \/ Dangling(h))
    /\ nullCall' = (nullCall \/ h = NULL)
    /\ UNCHANGED <<engineLive, userData>>

\* cmsUnregisterPluginsTHR(h).
cmsUnregisterPluginsTHR(h) ==
    /\ IF h \in engineLive
       THEN /\ plugins' = [plugins EXCEPT ![h] = {}]
            /\ UNCHANGED globalPlugins
       ELSE /\ globalPlugins' = {}
            /\ UNCHANGED plugins
    /\ fault' = (fault \/ Dangling(h))
    /\ nullCall' = (nullCall \/ h = NULL)
    /\ UNCHANGED <<engineLive, userData>>

\* --------------------------------------------------------- Context::as_ptr
GlobalContext_as_ptr_value == NULL

\* Mutant: the thread flavour answers like the global one.
ThreadContext_as_ptr_value_null(w) == NULL

ThreadContext_as_ptr_value(w) == handle[w]

GlobalContext_as_ptr(t) ==
    /\ gctx[t]
    /\ gpc[t] = "idle"
    /\ last' = Ret("global_as_ptr", t, GlobalContext_as_ptr_value, 0)
    /\ UNCHANGED <<wrapperVars, engineVars, globalVars>>

ThreadContext_as_ptr(w) ==
    /\ wstate[w] = "live"
    /\ last' = Ret("as_ptr", w, ThreadContext_as_ptr_value(w), 0)
    /\ UNCHANGED <<wrapperVars, engineVars, globalVars>>

\* ------------------------------------------------------------ GlobalContext
GlobalContext_new(t) ==
    /\ ~gctx[t]
    /\ gctx' = [gctx EXCEPT ![t] = TRUE]
    /\ last' = Ret("global_new", t, NULL, 0)
    /\ UNCHANGED <<wrapperVars, engineVars, gpc, raced>>

\* ffi::cmsUnregisterPlugins() taken as one step.
cmsUnregisterPlugins ==
    /\ globalPlugins' = {}
    /\ UNCHANGED <<engineLive, plugins, userData, fault, nullCall>>

\* Threads other than t that are inside a global engine call.
Overlapping(t) == {u \in Threads \ {t} : gpc[u] # "idle"}

\* Mutant: the call waits until no other thread is inside a global engine call.
GlobalContext_unregister_plugins_call_locked(t) ==
    /\ gctx[t]
    /\ gpc[t] = "idle"
    /\ Overlapping(t) = {}
    /\ gpc' = [gpc EXCEPT ![t] = "unreg"]
    /\ raced' = raced
    /\ last' = Ret("global_unregister_call", t, NULL, 0)
    /\ UNCHANGED <<wrapperVars, engineVars, gctx>>

\* unregister_plugins(&mut self) entering ffi::cmsUnregisterPlugins(): the
\* call needs only this thread's own GlobalContext, nothing is locked.
GlobalContext_unregister_plugins_call(t) ==
    /\ gctx[t]
    /\ gpc[t] = "idle"
    /\ gpc' = [gpc EXCEPT ![t] = "unreg"]
    /\ raced' = IF Overlapping(t) # {}
                THEN raced \cup {t} \cup Overlapping(t)
                ELSE raced
    /\ last' = Ret("global_unregister_call", t, NULL, 0)
    /\ UNCHANGED <<wrapperVars, engineVars, gctx>>

\* ffi::cmsUnregisterPlugins() returning: the global plugin set is emptied;
\* if the call overlapped another global engine call the write is a data race
\* and any part of the set may survive.
GlobalContext_unregister_plugins_return(t) ==
    /\ gpc[t] = "unreg"
    /\ gpc' = [gpc EXCEPT ![t] = "idle"]
    /\ raced' = raced \ {t}
    /\ IF t \in raced
       THEN /\ globalPlugins' \in SUBSET globalPlugins
            /\ UNCHANGED <<engineLive, plugins, userData, fault, nullCall>>
       ELSE cmsUnregisterPlugins
    /\ last' = Ret("global_unregister_return", t, NULL, 0)
    /\ UNCHANGED <<wrapperVars, gctx>>

\* A downstream engine call made with the handle GlobalContext::as_ptr()
\* gives: it reads the global plugin set while it runs.
GlobalContext_use_call(t) ==
    /\ gctx[t]
    /\ gpc[t] = "idle"
    /\ gpc' = [gpc EXCEPT ![t] = "use"]
    /\ raced' = IF \E u \in Overlapping(t) : gpc[u] = "unreg"
                THEN raced \cup {t} \cup Overlapping(t)
                ELSE raced
    /\ last' = Ret("global_use_call", t, GlobalContext_as_ptr_value, 0)
    /\ UNCHANGED <<wrapperVars, engineVars, gctx>>

GlobalContext_use_return(t) ==
    /\ gpc[t] = "use"
    /\ gpc' = [gpc EXCEPT ![t] = "idle"]
    /\ raced' = raced \ {t}
    /\ last' = Ret("global_use_return", t, NULL, 0)
    /\ UNCHANGED <<wrapperVars, engineVars, gctx>>

\* ------------------------------------------------------------ ThreadContext
Live == {w \in Wrappers : wstate[w] = "live"}

LiveHandles == {handle[w] : w \in Live}

\* Mutant: the assertion is missing, a null handle is wrapped like any other.
new_handle_unchecked(w, hnd, op, src) ==
    /\ wstate' = [wstate EXCEPT ![w] = "live"]
    /\ handle' = [handle EXCEPT ![w] = hnd]
    /\ created' = [created EXCEPT ![w] = hnd]
    /\ cloned' = IF src # 0 THEN <<src, w>> ELSE cloned
    /\ last' = Ret(op, w, hnd, 0)

\* new_handle: assert!(!handle.is_null()); Self {handle}.
new_handle(w, hnd, op, src) ==
    IF hnd = NULL
    THEN /\ last' = Ret(op, w, NULL, 1)
         /\ UNCHANGED wrapperVars
    ELSE /\ wstate' = [wstate EXCEPT ![w] = "live"]
         /\ handle' = [handle EXCEPT ![w] = hnd]
         /\ created' = [created EXCEPT ![w] = hnd]
         /\ cloned' = IF src # 0 THEN <<src, w>> ELSE cloned
         /\ last' = Ret(op, w, hnd, 0)

\* A new ThreadContext value takes the first free slot.
NextWrapper(w) == wstate[w] = "none" /\ \A v \in 1..(w - 1) : wstate[v] # "none"

\* Mutant: a non-null user-data pointer is handed to cmsCreateContext.
ThreadContext_new_with_user_data(w) ==
    /\ NextWrapper(w)
    /\ \E ret \in AllocResults :
         /\ cmsCreateContext(ret, 1)
         /\ new_handle(w, ret, "new", 0)
    /\ UNCHANGED globalVars

\* ThreadContext::new(): cmsCreateContext(null, null).
ThreadContext_new(w) ==
    /\ NextWrapper(w)
    /\ \E ret \in AllocResults :
         /\ cmsCreateContext(ret, NULL)
         /\ new_handle(w, ret, "new", 0)
    /\ UNCHANGED globalVars

\* Mutant: the clone copies the handle field instead of duplicating the context.
ThreadContext_clone_shallow(src, dst) ==
    /\ wstate[src] = "live"
    /\ NextWrapper(dst)
    /\ new_handle(dst, handle[src], "clone", src)
    /\ UNCHANGED <<engineVars, globalVars>>

\* Mutant: the clone asks for a fresh context instead of a duplicate.
ThreadContext_clone_fresh(src, dst) ==
    /\ wstate[src] = "live"
    /\ NextWrapper(dst)
    /\ \E ret \in AllocResults :
         /\ cmsCreateContext(ret, NULL)
         /\ new_handle(dst, ret, "clone", src)
    /\ UNCHANGED globalVars

\* Clone: cmsDupContext(self.handle, null).
ThreadContext_clone(src, dst) ==
    /\ wstate[src] = "live"
    /\ NextWrapper(dst)
    /\ \E ret \in AllocResults :
         /\ cmsDupContext(handle[src], ret, NULL)
         /\ new_handle(dst, ret, "clone", src)
    /\ UNCHANGED globalVars

\* user_data(&self): cmsGetContextUserData(self.handle).
ThreadContext_user_data(w) ==
    /\ wstate[w] = "live"
    /\ cmsGetContextUserData(handle[w])
    /\ last' = Ret("user_data", w, UserDataOf(handle[w]), 0)
    /\ UNCHANGED <<wrapperVars, globalVars>>

\* The bool install_plugin returns: 0 != ret.
NonZero(r) == IF 0 # r THEN 1 ELSE 0

\* install_plugin(&mut self, plugin): 0 != cmsPluginTHR(self.handle, plugin).
ThreadContext_install_plugin(w) ==
    /\ wstate[w] = "live"
    /\ \E p \in Plugins, ok \in {0, 1} :
         /\ cmsPluginTHR(handle[w], p, ok)
         /\ last' = Ret("install_plugin", w, NonZero(ok), 0)
    /\ UNCHANGED <<wrapperVars, globalVars>>

\* Mutant: the thread context calls the global cmsUnregisterPlugins().
ThreadContext_unregister_plugins_global(w) ==
    /\ wstate[w] = "live"
    /\ cmsUnregisterPlugins
    /\ last' = Ret("unregister_plugins", w, NULL, 0)
    /\ UNCHANGED <<wrapperVars, globalVars>>

\* Mutant: the thread context deletes its native context.
ThreadContext_unregister_plugins_delete(w) ==
    /\ wstate[w] = "live"
    /\ cmsDeleteContext(handle[w])
    /\ last' = Ret("unregister_plugins", w, NULL, 0)
    /\ UNCHANGED <<wrapperVars, globalVars>>

\* unregister_plugins(&mut self): cmsUnregisterPluginsTHR(self.handle).
ThreadContext_unregister_plugins(w) ==
    /\ wstate[w] = "live"
    /\ cmsUnregisterPluginsTHR(handle[w])
    /\ last' = Ret("unregister_plugins", w, NULL, 0)
    /\ UNCHANGED <<wrapperVars, globalVars>>

\* Drop: cmsDeleteContext(self.handle), run once when the value goes away.
ThreadContext_drop(w) ==
    /\ wstate[w] = "live"
    /\ cmsDeleteContext(handle[w])
    /\ wstate' = [wstate EXCEPT ![w] = "none"]
    /\ handle' = [handle EXCEPT ![w] = NULL]
    /\ created' = [created EXCEPT ![w] = NULL]
    /\ cloned' = IF w \in {cloned[1], cloned[2]} THEN <<0, 0>> ELSE cloned
    /\ last' = Ret("drop", w, NULL, 0)
    /\ UNCHANGED globalVars

\* Profile::new_icc_context(&c, buf) as the test uses it: the engine is given
\* c.as_ptr() and the bytes; an empty buffer is an error, never a crash.
Profile_new_icc_context(w) ==
    /\ wstate[w] = "live"
    /\ \E buf \in Buffers :
         last' = Ret("load", w, IF buf = 0 THEN 0 ELSE 1, 0)
    /\ fault' = (fault \/ Dangling(ThreadContext_as_ptr_value(w)))
    /\ nullCall' = (nullCall \/ ThreadContext_as_ptr_value(w) = NULL)
    /\ UNCHANGED <<wrapperVars, engineLive, plugins, userData, globalPlugins,
                   globalVars>>

\* The operations of ThreadContext, its Clone and its Drop, in any order.
Next ==
    \/ \E w \in Wrappers : ThreadContext_new(w)
    \/ \E s, d \in Wrappers : ThreadContext_clone(s, d)
    \/ \E w \in Wrappers : ThreadContext_user_data(w)
    \/ \E w \in Wrappers : ThreadContext_install_plugin(w)
    \/ \E w \in Wrappers : ThreadContext_unregister_plugins(w)
    \/ \E w \in Wrappers : ThreadContext_drop(w)
    \/ \E w \in Wrappers : Profile_new_icc_context(w)

Spec == Init /\ [][Next]_vars

\* The global-context operations of several threads, interleaved.
NextGlobal ==
    \/ \E t \in Threads : GlobalContext_new(t)
    \/ \E t \in Threads : GlobalContext_as_ptr(t)
    \/ \E t \in Threads : GlobalContext_unregister_plugins_call(t)
    \/ \E t \in Threads : GlobalContext_unregister_plugins_return(t)
    \/ \E t \in Threads : GlobalContext_use_call(t)
    \/ \E t \in Threads : GlobalContext_use_return(t)

SpecGlobal == Init /\ [][NextGlobal]_vars

\* Both flavours of context, built, cloned, dropped and asked for their handle.
NextAsPtr ==
    \/ \E t \in Threads : GlobalContext_new(t)
    \/ \E t \in Threads : GlobalContext_as_ptr(t)
    \/ \E w \in Wrappers : ThreadContext_new(w)
    \/ \E s, d \in Wrappers : ThreadContext_clone(s, d)
    \/ \E w \in Wrappers : ThreadContext_as_ptr(w)
    \/ \E w \in Wrappers : ThreadContext_drop(w)

SpecAsPtr == Init /\ [][NextAsPtr]_vars

\* ------------------------------------------------------------------ claims
\* Every call records its name and receiver in last, so a step that ends with
\* last.op = "drop" and last.w = w is a drop of wrapper w, and so on.
stateVars == <<wrapperVars, engineVars, globalVars>>

\* C1: every native context a ThreadContext obtained is deleted exactly once,
\* by the drop of the wrapper that owns it: the engine's live contexts are
\* always exactly the handles of the existing wrappers, a drop deletes the
\* wrapper's own live context and nothing else, no context is deleted outside
\* a drop, and no delete ever reaches an already deleted context.
C1_DeleteExactlyOnce ==
    /\ [](~fault /\ engineLive = LiveHandles)
    /\ [][last'.op = "drop" =>
            /\ wstate[last'.w] = "live"
            /\ wstate'[last'.w] = "none"
            /\ handle[last'.w] \in engineLive
            /\ engineLive' = engineLive \ {handle[last'.w]}]_vars
    /\ [][(\E h \in engineLive : h \notin engineLive') => last'.op = "drop"]_vars

C1_Witness ==
    /\ last.op = "drop"
    /\ Cardinality(Live) = 2
    /\ cloned # <<0, 0>>

\* C2: every existing ThreadContext holds a non-null handle; a null handle
\* from the engine makes new() or clone() panic without producing a wrapper,
\* and no engine call is ever issued by a ThreadContext with the null handle.
C2_HandleNonNull ==
    /\ \A w \in Live : handle[w] # NULL
    /\ ~nullCall
    /\ (last.op \in {"new", "clone"} /\ last.ret = NULL) =>
           (last.panic = 1 /\ wstate[last.w] = "none")
    /\ (last.op \in {"new", "clone"} /\ last.ret # NULL) =>
           (last.panic = 0 /\ wstate[last.w] = "live" /\ handle[last.w] = last.ret)

C2_Witness ==
    /\ last.op = "clone"
    /\ last.panic = 1
    /\ Live # {}

\* C4: a clone starts with the plugin set its source has at that moment, and
\* afterwards install_plugin or unregister_plugins on one context leaves the
\* plugin set of every other context, source or clone, unchanged.
C4_CloneIndependent ==
    /\ [][(last'.op = "clone" /\ last'.panic = 0) =>
            /\ cloned'[2] = last'.w
            /\ wstate[cloned'[1]] = "live"
            /\ plugins'[handle'[cloned'[2]]] = plugins[handle[cloned'[1]]]
            /\ plugins'[handle'[cloned'[1]]] = plugins[handle[cloned'[1]]]]_vars
    /\ [][last'.op \in {"install_plugin", "unregister_plugins"} =>
            \A v \in Live \ {last'.w} :
                plugins'[handle'[v]] = plugins[handle[v]]]_vars

C4_Witness ==
    /\ cloned # <<0, 0>>
    /\ last.op \in {"install_plugin", "unregister_plugins"}
    /\ plugins[handle[cloned[1]]] # plugins[handle[cloned[2]]]

\* C5: install_plugin, unregister_plugins and drop of one thread context
\* leave the global plugin set unchanged, and leave every other thread
\* context existing, with the same handle, a live native context and the
\* same plugins and user data.
C5_ThreadScoped ==
    [][last'.op \in {"install_plugin", "unregister_plugins", "drop"} =>
         /\ globalPlugins' = globalPlugins
         /\ \A v \in Live \ {last'.w} :
              /\ wstate'[v] = "live"
              /\ handle'[v] = handle[v]
              /\ handle[v] \in engineLive'
              /\ plugins'[handle[v]] = plugins[handle[v]]
              /\ userData'[handle[v]] = userData[handle[v]]]_vars

C5_Witness ==
    /\ last.op = "drop"
    /\ globalPlugins # {}
    /\ \E v \in Live : plugins[handle[v]] # {}

\* C6: nothing serialises the global engine calls: a thread that holds a
\* GlobalContext and is outside a call can always enter unregister_plugins,
\* whatever the other threads are in the middle of.
C6_NoLock ==
    \A t \in Threads :
        (gctx[t] /\ gpc[t] = "idle") =>
            ENABLED GlobalContext_unregister_plugins_call(t)

C6_Witness ==
    /\ \A t \in {1, 2} : gpc[t] = "unreg"
    /\ {1, 2} \subseteq raced

\* C7: the user data of every existing thread context is null, user_data()
\* returns null, and user_data() changes nothing.
C7_UserDataNull ==
    /\ [](\A w \in Live : UserDataOf(handle[w]) = NULL)
    /\ [](last.op = "user_data" => last.ret = NULL)
    /\ [][last'.op = "user_data" => UNCHANGED stateVars]_vars

C7_Witness ==
    /\ last.op = "user_data"
    /\ last.w = cloned[2]

\* C8: after unregister_plugins the context still exists with the same live
\* handle and an empty plugin set, every further operation on it is possible
\* and none has met a deleted context; repeating the call changes nothing.
C8_UnregisterNonDestructive ==
    /\ [](last.op = "unregister_plugins" =>
            /\ wstate[last.w] = "live"
            /\ handle[last.w] = created[last.w]
            /\ handle[last.w] \in engineLive
            /\ plugins[handle[last.w]] = {}
            /\ ENABLED ThreadContext_user_data(last.w)
            /\ ENABLED ThreadContext_install_plugin(last.w)
            /\ ENABLED ThreadContext_unregister_plugins(last.w)
            /\ ENABLED Profile_new_icc_context(last.w)
            /\ ENABLED ThreadContext_drop(last.w)
            /\ (Live # Wrappers =>
                  ENABLED (\E d \in Wrappers : ThreadContext_clone(last.w, d))))
    /\ [](~fault)
    /\ [][last'.op = "unregister_plugins" =>
            /\ UNCHANGED <<wrapperVars, engineLive, userData, globalPlugins>>
            /\ plugins'[handle[last'.w]] = {}
            /\ (plugins[handle[last'.w]] = {} => UNCHANGED stateVars)]_vars

C8_Witness ==
    /\ last.op = "unregister_plugins"
    /\ Cardinality(Live) >= 2
    /\ \E v \in Live \ {last.w} : plugins[handle[v]] # {}

\* C9: no two existing thread contexts hold the same handle; a clone's handle
\* differs from the handle of every context existing at the clone; dropping
\* one context leaves the others with their handle and a live native context.
C9_NoAlias ==
    /\ [](\A v, w \in Live : v # w => handle[v] # handle[w])
    /\ [][(last'.op = "clone" /\ last'.panic = 0) =>
            handle'[last'.w] \notin LiveHandles]_vars
    /\ [][last'.op = "drop" =>
            \A v \in Live \ {last'.w} :
                /\ wstate'[v] = "live"
                /\ handle'[v] = handle[v]
                /\ handle[v] \in engineLive']_vars

C9_Witness ==
    /\ Live = {1, 2, 3}
    /\ last.op = "clone"
    /\ last.panic = 0
    /\ cloned = <<1, 3>>

\* C10: as_ptr of a GlobalContext returns null, as_ptr of a ThreadContext
\* returns the handle the engine gave when the context was built, which the
\* context holds for as long as it exists, and neither call changes anything.
C10_AsPtrPure ==
    /\ [](last.op = "global_as_ptr" => last.ret = NULL)
    /\ [](last.op = "as_ptr" =>
            /\ wstate[last.w] = "live"
            /\ last.ret = created[last.w]
            /\ last.ret \in engineLive)
    /\ [](\A w \in Live : handle[w] = created[w])
    /\ [][last'.op \in {"as_ptr", "global_as_ptr"} => UNCHANGED stateVars]_vars

C10_Witness ==
    /\ last.op = "as_ptr"
    /\ last.w = cloned[2]
    /\ \E t \in Threads : gctx[t]

====
